---- MODULE Spec2Model ----
(***************************************************************************)
(* os_volume_backup: create / delete / restore Cinder volume backups.      *)
(*                                                                         *)
(* The module is one run of main() against a cloud.  The cloud (volumes    *)
(* and volume backups) is the state; one invocation of main() is one       *)
(* action.  The cloud facade (openstacksdk's cloud layer) is modelled by   *)
(* what the module's calls rely on: lookups by "name or id" with filters,  *)
(* which return the single match, None when nothing matches, and raise     *)
(* OpenStackCloudException when several entities match; and the three      *)
(* mutating calls, which either take effect or raise.                      *)
(***************************************************************************)
EXTENDS Naturals, Sequences, FiniteSets, TLC

(***************************************************************************)
(* Bounds: how many volumes and backups the cloud can hold (its quota).    *)
(***************************************************************************)
MaxVolumes == 2
MaxBackups == 2

\* Python's None, as a parameter value or a lookup result.
None == "None"

\* Identifiers the cloud hands out, in the order it hands them out.
VolumeIdPool == <<"v1", "v2", "v3", "v4">>
BackupIdPool == <<"b1", "b2", "b3", "b4">>
\* Name the cloud gives a volume created by a restore that names no target
\* (RETURN sample: restore_backup_<backup id>; the suffix is left out).
RestoreName == "restore_backup"

VolumeIds == {VolumeIdPool[i] : i \in 1..MaxVolumes}
BackupIds == {BackupIdPool[i] : i \in 1..MaxBackups}

\* Names other users of the cloud give to their volumes and backups.
VolumeNames == {"data"}
BackupNames == {"nightly"}

\* Values the playbook passes for each option (None: option not given).
BackupValues == {"nightly", "b1"}
SourceVolumeValues == {None, "v1", "data"}
TargetVolumeValues == {None, "v1", "data"}
ModeChoices == {"backup", "restore"}
StateChoices == {"present", "absent"}

Params == [backup : BackupValues, source_volume : SourceVolumeValues,
           target_volume : TargetVolumeValues, mode : ModeChoices,
           state : StateChoices]

VARIABLES
    volumes,     \* the cloud's volumes: records [id, name]
    backups,     \* the cloud's volume backups: records [id, name, volume_id]
    status,      \* "idle": no invocation to report; "done": main() has ended
    params,      \* module.params of the last invocation
    check_mode,  \* module.check_mode of the last invocation
    result,      \* what the last invocation ended with
    calls,       \* the mutating facade calls the last invocation made
    pre,         \* the cloud as the last invocation found it
    first        \* when the last invocation repeated the one before it with
                 \* the same parameters: how that one was run and ended

vars == <<volumes, backups, status, params, check_mode, result, calls, pre, first>>

----------------------------------------------------------------------------
(* The cloud facade: lookups *)

NoFilters == [k \in {} |-> None]
VolumeIdFilter(v) == [k \in {"volume_id"} |-> v]

\* name_or_id matches an entity's id or its name (no name_or_id: every
\* entity); every filter key must equal the entity's attribute.
_filter_list(data, name_or_id, filters) ==
    {e \in data :
        /\ name_or_id /= None => (e.id = name_or_id \/ e.name = name_or_id)
        /\ \A k \in DOMAIN filters : e[k] = filters[k]}

\* The single match, None, or "Multiple matches found".
_get_entity(entities) ==
    IF entities = {} THEN [kind |-> "none"]
    ELSE IF Cardinality(entities) > 1
         THEN [kind |-> "raise", message |-> "Multiple matches found"]
         ELSE [kind |-> "one", value |-> CHOOSE e \in entities : TRUE]

get_volume(vols, name_or_id) ==
    _get_entity(_filter_list(vols, name_or_id, NoFilters))

get_volume_backup(bkps, name_or_id, filters) ==
    _get_entity(_filter_list(bkps, name_or_id, filters))

----------------------------------------------------------------------------
(* The cloud facade: mutating calls.  fault: the backend fails the call.  *)

FreeIndex(pool, n, used) ==
    {i \in 1..n : pool[i] \notin used}

FirstFree(pool, n, used) ==
    LET free == FreeIndex(pool, n, used)
    IN  pool[CHOOSE i \in free : \A j \in free : i <= j]

create_volume_backup(bkps, volume_id, name, fault) ==
    LET used == {b.id : b \in bkps}
    IN  IF fault \/ FreeIndex(BackupIdPool, MaxBackups, used) = {}
        THEN [raised |-> TRUE, backups |-> bkps]
        ELSE LET new == [id |-> FirstFree(BackupIdPool, MaxBackups, used),
                         name |-> name, volume_id |-> volume_id]
             IN  [raised |-> FALSE, backup |-> new, backups |-> bkps \cup {new}]

delete_volume_backup(bkps, name_or_id, fault) ==
    IF fault
    THEN [raised |-> TRUE, backups |-> bkps]
    ELSE [raised |-> FALSE, backups |-> {b \in bkps : b.id /= name_or_id}]

restore_volume_backup(vols, backup_id, volume_name, volume_id, fault) ==
    LET used == {v.id : v \in vols}
    IN  IF fault THEN [raised |-> TRUE, volumes |-> vols]
        ELSE IF volume_id /= None
        THEN LET target == CHOOSE v \in vols : v.id = volume_id
             IN  [raised |-> FALSE, volumes |-> vols,
                  restore |-> [backup_id |-> backup_id, volume_id |-> volume_id,
                               volume_name |-> target.name]]
        ELSE IF FreeIndex(VolumeIdPool, MaxVolumes, used) = {}
        THEN [raised |-> TRUE, volumes |-> vols]
        ELSE LET new == [id |-> FirstFree(VolumeIdPool, MaxVolumes, used),
                         name |-> IF volume_name /= None THEN volume_name
                                  ELSE RestoreName]
             IN  [raised |-> FALSE, volumes |-> vols \cup {new},
                  restore |-> [backup_id |-> backup_id, volume_id |-> new.id,
                               volume_name |-> new.name]]

----------------------------------------------------------------------------
(* The host shell: how an invocation ends *)

\* module.exit_json(**kwargs): the result is the keyword arguments.
exit_json(kwargs) == kwargs

\* module.fail_json(msg=...)
fail_json(msg) == [failed |-> TRUE, msg |-> msg]

\* A Python exception on its way up the stack.
Raise(exception, message) == [raise |-> exception, message |-> message]
IsRaise(r) == "raise" \in DOMAIN r

\* str.format of a message with one argument.
Format(template, arg) == [template |-> template, arg |-> arg]

\* What a (part of a) run leaves: its result, the mutating calls made, the cloud.
Outcome(r, c, vols, bkps) ==
    [result |-> r, calls |-> c, volumes |-> vols, backups |-> bkps]

\* module.params.get(name, False) as a condition: the option was given.
Given(value) == value /= None

volume_exists(vols, name_or_id) ==
    LET volume == get_volume(vols, name_or_id)
    IN  IF volume.kind = "raise" THEN volume
        ELSE [kind |-> "value", value |-> volume.kind = "one"]

----------------------------------------------------------------------------
(* The backup lifecycle controller *)

\* An exception raised by a facade lookup, as the outcome of the run so far.
Raised(lookup, vols, bkps) ==
    Outcome(Raise("OpenStackCloudException", lookup.message), <<>>, vols, bkps)

\* Mutant: creates the backup without looking at the one that is there.
_present_volume_backup_recreate(p, vols, bkps, fault) ==
    LET volume == get_volume(vols, p.source_volume)
        created == create_volume_backup(bkps, volume.value.id, p.backup, fault)
        call == [op |-> "create_volume_backup", volume_id |-> volume.value.id,
                 name |-> p.backup, raised |-> created.raised]
    IN  IF volume.kind = "raise" THEN Raised(volume, vols, bkps)
        ELSE IF volume.kind = "none"
        THEN Outcome(Raise("AttributeError", "'NoneType' object has no attribute 'id'"),
                     <<>>, vols, bkps)
        ELSE IF created.raised
        THEN Outcome(fail_json("HttpException.details"), <<call>>, vols, created.backups)
        ELSE Outcome(exit_json([changed |-> TRUE, backup |-> created.backup]),
                     <<call>>, vols, created.backups)

_present_volume_backup(p, vols, bkps, fault) ==
    LET volume == get_volume(vols, p.source_volume)
    IN  IF volume.kind = "raise" THEN Raised(volume, vols, bkps)
        ELSE IF volume.kind = "none"
        THEN Outcome(Raise("AttributeError", "'NoneType' object has no attribute 'id'"),
                     <<>>, vols, bkps)
        ELSE
    LET backup == get_volume_backup(bkps, p.backup, VolumeIdFilter(volume.value.id))
    IN  IF backup.kind = "raise" THEN Raised(backup, vols, bkps)
        ELSE IF backup.kind = "none"
        THEN LET created == create_volume_backup(bkps, volume.value.id, p.backup, fault)
                 call == [op |-> "create_volume_backup", volume_id |-> volume.value.id,
                          name |-> p.backup, raised |-> created.raised]
             IN  IF created.raised
                 THEN Outcome(fail_json("HttpException.details"), <<call>>,
                              vols, created.backups)
                 ELSE Outcome(exit_json([changed |-> TRUE, backup |-> created.backup]),
                              <<call>>, vols, created.backups)
        ELSE Outcome(exit_json([changed |-> FALSE, backup |-> backup.value]),
                     <<>>, vols, bkps)

\* filters = {}; filters['volume_id'] = source_volume when that option is given.
SourceVolumeFilters(p) ==
    IF Given(p.source_volume) THEN VolumeIdFilter(p.source_volume) ELSE NoFilters

\* Mutant: a backup that is not there makes the task fail.
_absent_volume_backup_strict(p, vols, bkps, fault) ==
    LET backup == get_volume_backup(bkps, p.backup, SourceVolumeFilters(p))
        deleted == delete_volume_backup(bkps, backup.value.id, fault)
        call == [op |-> "delete_volume_backup",
                 name_or_id |-> backup.value.id, raised |-> deleted.raised]
    IN  IF backup.kind = "raise" THEN Raised(backup, vols, bkps)
        ELSE IF backup.kind = "none"
        THEN Outcome(fail_json(Format("No backup name or id '{0}' was found.",
                                      p.backup)), <<>>, vols, bkps)
        ELSE IF deleted.raised
        THEN Outcome(Raise("OpenStackCloudException", "delete failed"),
                     <<call>>, vols, deleted.backups)
        ELSE Outcome(exit_json([changed |-> TRUE, backup_id |-> backup.value.id]),
                     <<call>>, vols, deleted.backups)

\* Mutant: reports the deletion without asking the cloud for it.
_absent_volume_backup_no_delete(p, vols, bkps, fault) ==
    LET backup == get_volume_backup(bkps, p.backup, SourceVolumeFilters(p))
    IN  IF backup.kind = "raise" THEN Raised(backup, vols, bkps)
        ELSE IF backup.kind = "none"
        THEN Outcome(exit_json([changed |-> FALSE]), <<>>, vols, bkps)
        ELSE Outcome(exit_json([changed |-> TRUE, backup_id |-> backup.value.id]),
                     <<>>, vols, bkps)

_absent_volume_backup(p, vols, bkps, fault) ==
    LET backup == get_volume_backup(bkps, p.backup, SourceVolumeFilters(p))
    IN  IF backup.kind = "raise" THEN Raised(backup, vols, bkps)
        ELSE IF backup.kind = "none"
        THEN Outcome(exit_json([changed |-> FALSE]), <<>>, vols, bkps)
        ELSE LET deleted == delete_volume_backup(bkps, backup.value.id, fault)
                 call == [op |-> "delete_volume_backup",
                          name_or_id |-> backup.value.id, raised |-> deleted.raised]
             IN  IF deleted.raised
                 THEN Outcome(Raise("OpenStackCloudException", "delete failed"),
                              <<call>>, vols, deleted.backups)
                 ELSE Outcome(exit_json([changed |-> TRUE,
                                         backup_id |-> backup.value.id]),
                              <<call>>, vols, deleted.backups)

\* Mutant: hands the name over together with the id of the volume found.
RestoreTarget_both(p, vols) ==
    LET exists == IF Given(p.target_volume)
                  THEN volume_exists(vols, p.target_volume)
                  ELSE [kind |-> "value", value |-> FALSE]
    IN  IF exists.kind = "raise" THEN exists
        ELSE IF Given(p.target_volume) /\ exists.value
        THEN [kind |-> "value",
              volume_id |-> get_volume(vols, p.target_volume).value.id,
              volume_name |-> p.target_volume]
        ELSE [kind |-> "value", volume_id |-> None, volume_name |-> p.target_volume]

\* The volume_id and volume_name _restore_volume_backup passes on, or the
\* exception a lookup raised.
RestoreTarget(p, vols) ==
    LET exists == IF Given(p.target_volume)
                  THEN volume_exists(vols, p.target_volume)
                  ELSE [kind |-> "value", value |-> FALSE]
    IN  IF exists.kind = "raise" THEN exists
        ELSE IF Given(p.target_volume) /\ exists.value
        THEN [kind |-> "value",
              volume_id |-> get_volume(vols, p.target_volume).value.id,
              volume_name |-> None]
        ELSE IF Given(p.target_volume)
        THEN [kind |-> "value", volume_id |-> None, volume_name |-> p.target_volume]
        ELSE [kind |-> "value", volume_id |-> None, volume_name |-> None]

\* Mutant: a backup that is not there is reported as nothing to do.
_restore_volume_backup_lenient(p, vols, bkps, fault) ==
    LET target == RestoreTarget(p, vols)
        backup == get_volume_backup(bkps, p.backup, SourceVolumeFilters(p))
        restored == restore_volume_backup(vols, backup.value.id,
                                          target.volume_name, target.volume_id, fault)
        call == [op |-> "restore_volume_backup", backup_id |-> backup.value.id,
                 volume_name |-> target.volume_name,
                 volume_id |-> target.volume_id, raised |-> restored.raised]
    IN  IF target.kind = "raise" THEN Raised(target, vols, bkps)
        ELSE IF backup.kind = "raise" THEN Raised(backup, vols, bkps)
        ELSE IF backup.kind = "none"
        THEN Outcome(exit_json([changed |-> FALSE]), <<>>, vols, bkps)
        ELSE IF restored.raised
        THEN Outcome(Raise("OpenStackCloudException", "restore failed"),
                     <<call>>, restored.volumes, bkps)
        ELSE Outcome(exit_json([changed |-> TRUE, restore |-> restored.restore]),
                     <<call>>, restored.volumes, bkps)

_restore_volume_backup(p, vols, bkps, fault) ==
    LET target == RestoreTarget(p, vols)
    IN  IF target.kind = "raise" THEN Raised(target, vols, bkps)
        ELSE
    LET backup == get_volume_backup(bkps, p.backup, SourceVolumeFilters(p))
    IN  IF backup.kind = "raise" THEN Raised(backup, vols, bkps)
        ELSE IF backup.kind = "one"
        THEN LET restored == restore_volume_backup(vols, backup.value.id,
                                 target.volume_name, target.volume_id, fault)
                 call == [op |-> "restore_volume_backup",
                          backup_id |-> backup.value.id,
                          volume_name |-> target.volume_name,
                          volume_id |-> target.volume_id,
                          raised |-> restored.raised]
             IN  IF restored.raised
                 THEN Outcome(Raise("OpenStackCloudException", "restore failed"),
                              <<call>>, restored.volumes, bkps)
                 ELSE Outcome(exit_json([changed |-> TRUE,
                                         restore |-> restored.restore]),
                              <<call>>, restored.volumes, bkps)
        ELSE Outcome(fail_json(Format("No backup name or id '{0}' was found.",
                                      p.backup)),
                     <<>>, vols, bkps)

\* The value returned, or the exception raised on the way.
_system_state_change(p, vols, bkps) ==
    LET volume == get_volume(vols, p.source_volume)
    IN  IF volume.kind = "raise"
        THEN Raise("OpenStackCloudException", volume.message)
        ELSE IF volume.kind = "none"
        THEN Raise("AttributeError", "'NoneType' object has no attribute 'id'")
        ELSE
    LET backup == get_volume_backup(bkps, p.backup, VolumeIdFilter(volume.value.id))
    IN  IF backup.kind = "raise"
        THEN Raise("OpenStackCloudException", backup.message)
        ELSE IF p.state = "present"
        THEN [value |-> backup.kind = "none"]
        ELSE [value |-> backup.kind /= "none"]

\* Mutant: state=present goes on without asking whether the volume exists.
BackupMode_unchecked_volume(p, check, vols, bkps, fault) ==
    IF check
    THEN LET change == _system_state_change(p, vols, bkps)
         IN  IF IsRaise(change)
             THEN Outcome(change, <<>>, vols, bkps)
             ELSE Outcome(exit_json([changed |-> change.value]), <<>>, vols, bkps)
    ELSE IF p.state = "present"
    THEN _present_volume_backup(p, vols, bkps, fault)
    ELSE _absent_volume_backup(p, vols, bkps, fault)

\* main(), mode == 'backup'
BackupMode(p, check, vols, bkps, fault) ==
    IF check
    THEN LET change == _system_state_change(p, vols, bkps)
         IN  IF IsRaise(change)
             THEN Outcome(change, <<>>, vols, bkps)
             ELSE Outcome(exit_json([changed |-> change.value]), <<>>, vols, bkps)
    ELSE IF p.state = "present"
    THEN LET exists == volume_exists(vols, p.source_volume)
         IN  IF exists.kind = "raise" THEN Raised(exists, vols, bkps)
             ELSE IF exists.value
             THEN _present_volume_backup(p, vols, bkps, fault)
             ELSE Outcome(fail_json(Format(
                              "No volume with name or id '{0}' was found.",
                              p.source_volume)),
                          <<>>, vols, bkps)
    ELSE _absent_volume_backup(p, vols, bkps, fault)

\* Mutant: --check does not keep the restore from running.
RestoreMode_ignores_check(p, check, vols, bkps, fault) ==
    _restore_volume_backup(p, vols, bkps, fault)

\* main(), mode == 'restore'
RestoreMode(p, check, vols, bkps, fault) ==
    IF check
    THEN Outcome(exit_json([skipped |-> TRUE,
             msg |-> "mode 'restore' does not support check mode, skipping"]),
             <<>>, vols, bkps)
    ELSE _restore_volume_backup(p, vols, bkps, fault)

\* main(): the try block, and the except clause that turns the SDK's
\* exceptions into fail_json; any other exception leaves main() uncaught.
main(p, check, vols, bkps, fault) ==
    LET out == IF p.mode = "backup"
               THEN BackupMode(p, check, vols, bkps, fault)
               ELSE RestoreMode(p, check, vols, bkps, fault)
    IN  IF IsRaise(out.result)
           /\ out.result.raise \in {"OpenStackCloudException", "ResourceTimeout"}
        THEN [out EXCEPT !.result = fail_json(out.result.message)]
        ELSE out

----------------------------------------------------------------------------
(* The state machine *)

NoParams == [backup |-> None, source_volume |-> None, target_volume |-> None,
             mode |-> "backup", state |-> "present"]
NoResult == [pending |-> TRUE]
NoCloud == [volumes |-> {}, backups |-> {}]
NoFirst == [none |-> TRUE]

Init ==
    /\ volumes = {}
    /\ backups = {}
    /\ status = "idle"
    /\ params = NoParams
    /\ check_mode = FALSE
    /\ result = NoResult
    /\ calls = <<>>
    /\ pre = NoCloud
    /\ first = NoFirst

\* Between two tasks of the play nothing of an invocation is left to report.
Forgotten ==
    /\ status' = "idle"
    /\ params' = NoParams
    /\ check_mode' = FALSE
    /\ result' = NoResult
    /\ calls' = <<>>
    /\ pre' = NoCloud
    /\ first' = NoFirst

\* Between two tasks another user of the cloud creates a volume ...
CreateVolume ==
    \E name \in VolumeNames :
        /\ status = "idle"
        /\ FreeIndex(VolumeIdPool, MaxVolumes, {v.id : v \in volumes}) /= {}
        /\ \A v \in volumes : v.name /= name
        /\ volumes' = volumes \cup
               {[id |-> FirstFree(VolumeIdPool, MaxVolumes, {v.id : v \in volumes}),
                 name |-> name]}
        /\ UNCHANGED backups
        /\ Forgotten

\* ... deletes one (its backups stay) ...
DeleteVolume ==
    \E v \in volumes :
        /\ status = "idle"
        /\ volumes' = volumes \ {v}
        /\ UNCHANGED backups
        /\ Forgotten

\* ... backs a volume up under a name that volume's backups do not use yet ...
CreateBackup ==
    \E name \in BackupNames, v \in volumes :
        /\ status = "idle"
        /\ FreeIndex(BackupIdPool, MaxBackups, {b.id : b \in backups}) /= {}
        /\ \A b \in backups : ~(b.name = name /\ b.volume_id = v.id)
        /\ backups' = backups \cup
               {[id |-> FirstFree(BackupIdPool, MaxBackups, {b.id : b \in backups}),
                 name |-> name, volume_id |-> v.id]}
        /\ UNCHANGED volumes
        /\ Forgotten

\* ... or deletes a backup.
DeleteBackup ==
    \E b \in backups :
        /\ status = "idle"
        /\ backups' = backups \ {b}
        /\ UNCHANGED volumes
        /\ Forgotten

\* One run of the module, from the parsed parameters to its result.
Invoke ==
    \E p \in Params, check \in BOOLEAN, fault \in BOOLEAN :
        LET out == main(p, check, volumes, backups, fault)
        IN  /\ status = "idle"
            /\ volumes' = out.volumes
            /\ backups' = out.backups
            /\ status' = "done"
            /\ params' = p
            /\ check_mode' = check
            /\ result' = out.result
            /\ calls' = out.calls
            /\ pre' = [volumes |-> volumes, backups |-> backups]
            /\ first' = NoFirst

\* The same task is run once more, with the same parameters and without
\* --check, on the cloud as the first run (a dry run or not) left it.
Repeat ==
    \E fault \in BOOLEAN :
        LET check == FALSE
            out == main(params, check, volumes, backups, fault)
        IN  /\ status = "done"
            /\ first = NoFirst
            /\ volumes' = out.volumes
            /\ backups' = out.backups
            /\ status' = "done"
            /\ params' = params
            /\ check_mode' = check
            /\ result' = out.result
            /\ calls' = out.calls
            /\ pre' = [volumes |-> volumes, backups |-> backups]
            /\ first' = [check_mode |-> check_mode, result |-> result]

\* The play takes the result and moves on to its next task.
Return ==
    /\ status = "done"
    /\ UNCHANGED <<volumes, backups>>
    /\ Forgotten

Next ==
    \/ CreateVolume
    \/ DeleteVolume
    \/ CreateBackup
    \/ DeleteBackup
    \/ Invoke
    \/ Repeat
    \/ Return

Spec == Init /\ [][Next]_vars

----------------------------------------------------------------------------
(* Properties.  They are stated on the state an invocation ends in: pre is *)
(* the cloud it found, volumes and backups the cloud it left, calls the    *)
(* mutating facade calls it made, result what it reported.  "Exists",      *)
(* "resolves" and "is found" are the facade's answers on the cloud found.  *)

Done == status = "done"
RealRun == Done /\ ~check_mode
DryRun == Done /\ check_mode

\* exit_json with a changed flag, and not a failure.
Success(r) == "changed" \in DOMAIN r /\ "failed" \notin DOMAIN r
Failed(r) == "failed" \in DOMAIN r /\ r.failed /\ "msg" \in DOMAIN r

\* No create, delete or restore was invoked, and the cloud is as it was found.
CloudUntouched ==
    /\ calls = <<>>
    /\ volumes = pre.volumes
    /\ backups = pre.backups

\* What the facade answers for source_volume, and for backup among the
\* backups of a volume, on the cloud the invocation found.
SourceVolume == get_volume(pre.volumes, params.source_volume)
BackupOf(volume_id) ==
    get_volume_backup(pre.backups, params.backup, VolumeIdFilter(volume_id))
\* The lookup of backup as mode=restore and state=absent make it.
BackupLookup ==
    get_volume_backup(pre.backups, params.backup,
                      IF params.source_volume /= None
                      THEN VolumeIdFilter(params.source_volume) ELSE NoFilters)

\* C1: a real run with mode=backup, state=present and a source_volume that
\* resolves to a volume: when the facade finds no backup `backup` for that
\* volume's id, create_volume_backup is invoked exactly once, with that id and
\* `backup` as name, and (unless the call raises) the result is changed=true
\* with the backup created; when it finds one, nothing is invoked, the cloud
\* is untouched and the result is changed=false with that backup.
C1_PresentCreatesOnce ==
    (/\ RealRun
     /\ params.mode = "backup"
     /\ params.state = "present"
     /\ SourceVolume.kind = "one")
    => LET volume_id == SourceVolume.value.id
           found == BackupOf(volume_id)
       IN  /\ found.kind = "none" =>
                /\ Len(calls) = 1
                /\ calls[1].op = "create_volume_backup"
                /\ calls[1].volume_id = volume_id
                /\ calls[1].name = params.backup
                /\ volumes = pre.volumes
                /\ ~calls[1].raised =>
                     /\ Success(result)
                     /\ result.changed = TRUE
                     /\ DOMAIN result = {"changed", "backup"}
                     /\ result.backup.name = params.backup
                     /\ result.backup.volume_id = volume_id
                     /\ result.backup \notin pre.backups
                     /\ backups = pre.backups \cup {result.backup}
           /\ found.kind = "one" =>
                /\ CloudUntouched
                /\ result = [changed |-> FALSE, backup |-> found.value]

\* C1 witness: the volume had no backup of that name, while another volume
\* had one, and the run created it.
C1_Witness ==
    /\ RealRun
    /\ params.mode = "backup"
    /\ params.state = "present"
    /\ SourceVolume.kind = "one"
    /\ BackupOf(SourceVolume.value.id).kind = "none"
    /\ \E b \in pre.backups : b.name = params.backup
    /\ Len(calls) = 1
    /\ ~calls[1].raised
    /\ Success(result)
    /\ result.changed

\* The backups the documentation of source_volume makes `backup` stand for:
\* name or id is `backup`, and, when source_volume is given as the name or
\* the id of a volume, the backup is one of that volume.
MatchingBackups ==
    {b \in pre.backups :
        /\ b.name = params.backup \/ b.id = params.backup
        /\ params.source_volume /= None =>
              \/ b.volume_id = params.source_volume
              \/ \E v \in pre.volumes :
                    /\ v.name = params.source_volume \/ v.id = params.source_volume
                    /\ b.volume_id = v.id}

\* C2: a real run with mode=backup, state=absent: when no backup matches,
\* the result is changed=false and nothing is invoked; when one backup
\* matches, delete_volume_backup is invoked exactly once on its id and
\* (unless the call raises) the result is changed=true with backup_id that id.
C2_AbsentDeletesMatching ==
    (/\ RealRun
     /\ params.mode = "backup"
     /\ params.state = "absent")
    => /\ MatchingBackups = {} =>
            /\ result = [changed |-> FALSE]
            /\ CloudUntouched
       /\ Cardinality(MatchingBackups) = 1 =>
            LET backup == CHOOSE b \in MatchingBackups : TRUE
            IN  /\ Len(calls) = 1
                /\ calls[1].op = "delete_volume_backup"
                /\ calls[1].name_or_id = backup.id
                /\ ~calls[1].raised =>
                     result = [changed |-> TRUE, backup_id |-> backup.id]

C4_BackupModeIdempotent ==
    (/\ RealRun
     /\ first /= NoFirst
     /\ ~first.check_mode
     /\ params.mode = "backup"
     /\ Success(first.result))
    => /\ Success(result)
       /\ result.changed = FALSE
       /\ CloudUntouched

\* C4 witness: the first run deleted the backup of the source volume given,
\* the second ran on what it left.
C4_Witness ==
    /\ RealRun
    /\ first /= NoFirst
    /\ ~first.check_mode
    /\ params.mode = "backup"
    /\ Success(first.result)
    /\ first.result.changed
    /\ params.state = "absent"
    /\ params.source_volume /= None

\* C5: in every restore_volume_backup call: target_volume given and matching
\* a volume: volume_id is that volume's id and there is no volume_name; given
\* and matching no volume: volume_name is target_volume itself and there is no
\* volume_id; not given: neither.  The two are never both set.
C5_RestoreTarget ==
    Done =>
    \A i \in DOMAIN calls :
        calls[i].op = "restore_volume_backup" =>
        LET call == calls[i]
            target == params.target_volume
            matching == {v \in pre.volumes : v.id = target \/ v.name = target}
        IN  /\ (target /= None /\ matching /= {}) =>
                 /\ \E v \in matching : call.volume_id = v.id
                 /\ call.volume_name = None
            /\ (target /= None /\ matching = {}) =>
                 /\ call.volume_name = target
                 /\ call.volume_id = None
            /\ target = None =>
                 /\ call.volume_name = None
                 /\ call.volume_id = None
            /\ ~(call.volume_id /= None /\ call.volume_name /= None)

\* C5 witness: a restore onto a volume found by its name.
C5_Witness ==
    /\ Done
    /\ Len(calls) = 1
    /\ calls[1].op = "restore_volume_backup"
    /\ params.target_volume = "data"
    /\ calls[1].volume_id \in VolumeIds
    /\ ~calls[1].raised

\* C6: a dry run with mode=backup, whatever state and source_volume, ends
\* with {changed: c}, c = ((state == present) == (no backup `backup` exists)),
\* and invokes nothing.  (Existence is taken among the backups of the source
\* volume when source_volume resolves, among all backups otherwise.)
C6_DryRunBackup ==
    (DryRun /\ params.mode = "backup")
    => LET found == IF SourceVolume.kind = "one"
                    THEN BackupOf(SourceVolume.value.id)
                    ELSE get_volume_backup(pre.backups, params.backup, NoFilters)
           c == (params.state = "present") = (found.kind = "none")
       IN  /\ result = [changed |-> c]
           /\ CloudUntouched

\* C7: a dry run with mode=restore ends skipped, with a message, neither
\* failed nor changed, and invokes nothing.
C7_DryRunRestoreSkipped ==
    (DryRun /\ params.mode = "restore")
    => /\ DOMAIN result = {"skipped", "msg"}
       /\ result.skipped = TRUE
       /\ CloudUntouched

\* C7 witness: the backup was there to restore, and the dry run skipped.
C7_Witness ==
    /\ DryRun
    /\ params.mode = "restore"
    /\ BackupLookup.kind = "one"
    /\ "skipped" \in DOMAIN result

\* C8, as stated: a real run that is mode=restore, or mode=backup with
\* state=absent and source_volume given, and whose lookup of `backup` finds
\* nothing, ends with a failure and not with a success.
C8_UnresolvedBackupFails ==
    (/\ RealRun
     /\ \/ params.mode = "restore"
        \/ /\ params.mode = "backup"
           /\ params.state = "absent"
           /\ params.source_volume /= None
     /\ BackupLookup.kind = "none")
    => /\ Failed(result)
       /\ ~Success(result)

\* C8, amended: a lookup of `backup` that finds nothing is a failure in
\* mode=restore only; with mode=backup, state=absent and source_volume given
\* the run ends with the success result changed=false, and invokes nothing.
C8_UnresolvedBackupFailsInRestore ==
    (RealRun /\ BackupLookup.kind = "none")
    => /\ params.mode = "restore" =>
            /\ Failed(result)
            /\ ~Success(result)
            /\ result.msg = Format("No backup name or id '{0}' was found.",
                                   params.backup)
       /\ (/\ params.mode = "backup"
           /\ params.state = "absent"
           /\ params.source_volume /= None) =>
            /\ result = [changed |-> FALSE]
            /\ CloudUntouched

\* C8 witness: state=absent with a source_volume that has no such backup,
\* while another volume has one.
C8_Witness ==
    /\ RealRun
    /\ params.mode = "backup"
    /\ params.state = "absent"
    /\ params.source_volume /= None
    /\ BackupLookup.kind = "none"
    /\ \E b \in pre.backups : b.name = params.backup
    /\ Success(result)

\* C9: a real run with mode=backup, state=present and a source_volume that
\* resolves to no volume fails with the 'no volume found' message, reports no
\* backup, invokes nothing and leaves the backups as they were.
C9_MissingSourceVolumeFails ==
    (/\ RealRun
     /\ params.mode = "backup"
     /\ params.state = "present"
     /\ SourceVolume.kind = "none")
    => /\ result = fail_json(Format("No volume with name or id '{0}' was found.",
                                    params.source_volume))
       /\ CloudUntouched

\* C9 witness: source_volume was given, a backup of that name existed, and
\* the run failed.
C9_Witness ==
    /\ RealRun
    /\ params.mode = "backup"
    /\ params.state = "present"
    /\ params.source_volume /= None
    /\ SourceVolume.kind = "none"
    /\ \E b \in pre.backups : b.name = params.backup
    /\ Failed(result)

\* C10: a mode=backup task run dry and then for real on the same cloud: the
\* dry run ended with {changed: c} exactly when the real run ends with
\* success, and then c is the changed the real run reports (real runs whose
\* facade call raised aside).
C10_DryRunAgreesWithRealRun ==
    (/\ RealRun
     /\ first /= NoFirst
     /\ first.check_mode
     /\ params.mode = "backup"
     /\ \A i \in DOMAIN calls : ~calls[i].raised)
    => /\ (DOMAIN first.result = {"changed"}) <=> Success(result)
       /\ Success(result) => first.result.changed = result.changed

====
